---- MODULE Spec2Model ----
(***************************************************************************)
(* A model of gltut-rust: the windowed application shell (src/app.rs), the *)
(* shader / program wrappers (src/glutil.rs) and the program-building      *)
(* paths of the binary (src/runtime.rs) and of the examples.               *)
(*                                                                         *)
(* Several specifications share the module.                                *)
(*   Spec       the application shell GlApp, driven by the event loop.     *)
(*   SpecGl     the life cycle of shader and program objects.              *)
(*   SpecShells GlApp and the DoNothing handler of the binary.             *)
(*   SpecSteps  GlApp with every call of a handler as a step of its own.   *)
(*   SpecLive   GlApp in a run without end, redraw requests served fairly. *)
(***************************************************************************)
EXTENDS Integers, Sequences, FiniteSets, TLC

VARIABLES
    \* ---- application shell (src/app.rs, src/main.rs) ----
    shell,          \* the ApplicationHandler run: "GlApp" or "DoNothing"
    delegate,       \* which GlAppDelegate the GlApp was built with
    exiting,        \* the exit flag of the ActiveEventLoop
    crashed,        \* the process panicked (swap_buffers(..).expect(..))
    swapFailed,     \* a call of swap_buffers returned an error
    redrawPending,  \* window.request_redraw() was called and not yet served
    lastEvent,      \* the WindowEvent handled last
    trace,          \* the calls made while handling lastEvent, in order
    nDisplay,       \* calls of delegate.display so far
    nReshape,       \* calls of delegate.reshape so far
    nSwap,          \* calls of surface.swap_buffers so far
    nRedrawEv,      \* RedrawRequested events handled so far
    nCloseEv,       \* CloseRequested events handled so far
    nEvents,        \* events handled so far
    viewport,       \* the rectangle of the last gl::Viewport call
    frame,          \* parity of the number of RedrawRequested events handled
    \* ---- the event loop, call by call (SpecSteps) ----
    queue,          \* events posted by the window system, not yet dispatched
    todo,           \* calls the running handler has still to make
    log,            \* for every call made so far, the number of its event
    nDispatched,    \* events handed to window_event so far
    \* ---- shader and program objects (src/glutil.rs, src/runtime.rs) ----
    gl,             \* the state of the OpenGL context
    prog,           \* which program of the repository is running
    pc,             \* where that program is: "init", "loop", "done", "panicked"
    shaderVals,     \* the ids of the GlShader values that are alive
    programVals,    \* the ids of the GlProgram values that are alive
    rawProgram,     \* the GLuint program kept by runtime.rs's TriangleExample
    last            \* the library call made last, with its inputs and result

stepVars == <<queue, todo, log, nDispatched>>

handlerVars == <<shell, delegate, exiting, crashed, swapFailed, redrawPending,
                 lastEvent, trace, nDisplay, nReshape, nSwap, nRedrawEv, nCloseEv,
                 nEvents, viewport, frame>>

shellVars == <<handlerVars, stepVars>>

glVars == <<gl, prog, pc, shaderVals, programVals, rawProgram, last>>

vars == <<shellVars, glVars>>

-----------------------------------------------------------------------------
(* Bounds *)

\* events delivered in one run
MaxEvents == 4

\* width in bits of the scaled-down u32 / GLsizei
WordBits == 3

\* object names the OpenGL context can hand out
MaxObjs == 6

\* objects the library client creates
MaxLibObjs == 3

\* length of a shader source, in bytes
MaxSrcLen == 2

\* INFO_LOG_LENGTH values the driver reports
MaxLog == 2

-----------------------------------------------------------------------------
(* Small helpers *)

Pow2(n) == 2 ^ n

\* number of entries of the call sequence tr whose call is c
RECURSIVE Count(_, _)
Count(tr, c) ==
    IF tr = <<>> THEN 0
    ELSE (IF Head(tr).call = c THEN 1 ELSE 0) + Count(Tail(tr), c)

\* index of the first entry of tr whose call is c, 0 when there is none
RECURSIVE IndexOf(_, _, _)
IndexOf(tr, c, i) ==
    IF i > Len(tr) THEN 0
    ELSE IF tr[i].call = c THEN i
    ELSE IndexOf(tr, c, i + 1)

\* argument of the last entry of tr whose call is c, dflt when there is none
RECURSIVE LastArg(_, _, _)
LastArg(tr, c, dflt) ==
    IF tr = <<>> THEN dflt
    ELSE IF tr[Len(tr)].call = c THEN tr[Len(tr)].arg
    ELSE LastArg(SubSeq(tr, 1, Len(tr) - 1), c, dflt)

NoArg == <<>>
Call(c) == [call |-> c, arg |-> NoArg]
CallWith(c, a) == [call |-> c, arg |-> a]

-----------------------------------------------------------------------------
(* Application shell: src/app.rs *)

\* the delegates a GlApp is built with in this repository: the provided
\* methods, GlAppBuilder::new(), a builder given two closures, the builder of
\* example 02, the MovingTriangle of examples 03_1 and 03_2
Delegates == {"default", "builder", "closures", "ex02", "moving"}

\* values of a u32 dimension (scaled to WordBits bits)
Dims == {0, 3, Pow2(WordBits - 1), Pow2(WordBits) - 1}
Sizes == Dims \X Dims

\* window events other than the three the shell reacts to
OtherKinds == {"Focused", "CursorMoved"}

\* `as GLsizei`: a u32 reinterpreted as a signed integer of the same width
AsGLsizei(v) == IF v >= Pow2(WordBits - 1) THEN v - Pow2(WordBits) ELSE v

\* `as i32`: a u32 reinterpreted as a signed integer of the same width
AsI32(v) == IF v >= Pow2(WordBits - 1) THEN v - Pow2(WordBits) ELSE v

\* std::cmp::max
max(a, b) == IF a >= b THEN a ELSE b

\* fn set_gl_viewport(size)
set_gl_viewport(size) ==
    <<CallWith("gl::Viewport", <<0, 0, AsGLsizei(size[1]), AsGLsizei(size[2])>>)>>

\* fn do_nothing()
do_nothing == <<>>

\* fn centered_reshape(size) of example 02; size is <<width, height>>
centered_reshape(size) ==
    LET width == size[1]
        height == size[2]
        length == IF width < height THEN AsI32(width) ELSE AsI32(height)
        x == IF width < height THEN 0 ELSE max(0, AsI32((width - height) \div 2))
        y == IF width < height THEN max(0, AsI32((height - width) \div 2)) ELSE 0
    IN  <<CallWith("gl::Viewport", <<x, y, length, length>>)>>

\* GlAppDelegate::display, the provided implementation: do nothing
GlAppDelegate_display == <<>>

\* GlAppDelegate::reshape, the provided implementation
GlAppDelegate_reshape(size) == set_gl_viewport(size)

\* the display_fn of a GlAppBuilder: do_nothing unless with_display set one
display_fn(d) == IF d = "builder" THEN do_nothing ELSE <<Call("display_fn")>>

\* a builder whose reshape_fn starts out as do_nothing
ReshapeFnMutNoDefault(d, size) ==
    CASE d = "builder" -> do_nothing
      [] d = "ex02"    -> <<CallWith("reshape_fn", size)>> \o centered_reshape(size)
      [] OTHER         -> <<CallWith("reshape_fn", size)>>

\* the reshape_fn of a GlAppBuilder: set_gl_viewport unless with_reshape set
\* one; example 02 sets centered_reshape
reshape_fn(d, size) ==
    CASE d = "builder" -> set_gl_viewport(size)
      [] d = "ex02"    -> <<CallWith("reshape_fn", size)>> \o centered_reshape(size)
      [] OTHER         -> <<CallWith("reshape_fn", size)>>

\* impl GlAppDelegate for GlAppBuilder
GlAppBuilder_display(d) == display_fn(d)
GlAppBuilder_reshape(d, size) == reshape_fn(d, size)

\* a display of the moving triangle that draws and asks for nothing more
MovingDisplayMutNoRequest == <<Call("gl::DrawArrays")>>

\* MovingTriangle::display of examples 03_1 and 03_2: draw, then request
\* another frame; reshape is the provided implementation
MovingTriangle_display_calls == <<Call("gl::DrawArrays"), Call("request_redraw")>>

\* self.delegate.display(&self.app): the calls made by the body of display
display(d) ==
    CASE d = "default"  -> GlAppDelegate_display
      [] d = "builder"  -> GlAppBuilder_display(d)
      [] d = "closures" -> GlAppBuilder_display(d)
      [] d = "ex02"     -> GlAppBuilder_display(d)
      [] d = "moving"   -> MovingTriangle_display_calls

\* self.delegate.reshape(&self.app, &size): the calls made by the body of reshape
reshape(d, size) ==
    CASE d = "default"  -> GlAppDelegate_reshape(size)
      [] d = "builder"  -> GlAppBuilder_reshape(d, size)
      [] d = "closures" -> GlAppBuilder_reshape(d, size)
      [] d = "ex02"     -> GlAppBuilder_reshape(d, size)
      [] d = "moving"   -> GlAppDelegate_reshape(size)

\* a redraw arm that presents nothing
RedrawMutNoSwap(d) ==
    <<Call("display")>> \o display(d)
        \o <<Call("gl::Flush"), Call("pre_present_notify")>>

\* a redraw arm that presents the frame before it is drawn
RedrawMutSwapFirst(d) ==
    <<Call("swap_buffers"), Call("display")>> \o display(d)
        \o <<Call("gl::Flush"), Call("pre_present_notify")>>

\* a redraw arm that schedules the next frame itself
RedrawMutRequests(d) ==
    <<Call("display")>> \o display(d)
        \o <<Call("gl::Flush"), Call("pre_present_notify"), Call("swap_buffers"),
             Call("request_redraw")>>

\* the match arm WindowEvent::RedrawRequested, as the sequence of calls made
RedrawArm(d) ==
    <<Call("display")>> \o display(d)
        \o <<Call("gl::Flush"), Call("pre_present_notify"), Call("swap_buffers")>>

\* a resize arm that hands reshape the height as width and the width as height
ResizedMutSwapped(d, size) ==
    <<Call("resize_surface"), CallWith("reshape", <<size[2], size[1]>>)>>
        \o reshape(d, <<size[2], size[1]>>)

\* a resize arm that runs reshape before the surface is resized
ResizedMutReshapeFirst(d, size) ==
    <<CallWith("reshape", size)>> \o reshape(d, size) \o <<Call("resize_surface")>>

\* the match arm WindowEvent::Resized(size)
ResizedArm(d, size) ==
    <<Call("resize_surface"), CallWith("reshape", size)>> \o reshape(d, size)

\* a close arm that does not signal the event loop
CloseMutNoExit == <<>>

\* the match arm WindowEvent::CloseRequested
CloseArm == <<Call("exit")>>

\* a catch-all arm that flushes the pipeline
OtherMutFlushes == <<Call("gl::Flush")>>

\* the match arm `_ => ()`
OtherArm == <<>>

\* DoNothing::window_event of the binary, arm RedrawRequested: display of the
\* TriangleExample, then swap_buffers(..).unwrap()
DoNothingRedrawArm ==
    <<Call("display"), Call("gl::DrawArrays"), Call("swap_buffers")>>

\* DoNothing::window_event, arm CloseRequested
DoNothingCloseArm == <<Call("exit")>>

\* DoNothing::window_event, arm `_ => ()`; a Resized event ends up here
DoNothingOtherArm == <<>>

\* a swap result nobody looks at
ExpectMutIgnored(ok) == FALSE

\* Result::expect and Result::unwrap on the result of swap_buffers: TRUE when
\* the call panics
expect(ok) == ~ok

\* the event loop is running: exit() was not called, no handler panicked
Running == ~exiting /\ ~crashed

\* EventLoop::run_app: events are dispatched until exit() was called; a
\* panic in the handler ends the process
CanDispatch == ~exiting /\ ~crashed /\ nEvents < MaxEvents

\* a counter of the model advanced by k; it stops at MaxEvents
Inc(n, k) == IF n + k > MaxEvents THEN MaxEvents ELSE n + k

\* the state after the calls tr were made for event ev
Handled(ev, tr, swapOk) ==
    /\ lastEvent' = ev
    /\ trace' = tr
    /\ nEvents' = Inc(nEvents, 1)
    /\ nDisplay' = Inc(nDisplay, Count(tr, "display"))
    /\ nReshape' = Inc(nReshape, Count(tr, "reshape"))
    /\ nSwap' = Inc(nSwap, Count(tr, "swap_buffers"))
    /\ nRedrawEv' = Inc(nRedrawEv, IF ev.kind = "RedrawRequested" THEN 1 ELSE 0)
    /\ nCloseEv' = Inc(nCloseEv, IF ev.kind = "CloseRequested" THEN 1 ELSE 0)
    /\ frame' = IF ev.kind = "RedrawRequested" THEN 1 - frame ELSE frame
    /\ exiting' = (exiting \/ Count(tr, "exit") > 0)
    /\ swapFailed' = (swapFailed \/ (Count(tr, "swap_buffers") > 0 /\ ~swapOk))
    /\ crashed' = (crashed \/ (Count(tr, "swap_buffers") > 0 /\ expect(swapOk)))
    /\ redrawPending' =
          IF Count(tr, "request_redraw") > 0 THEN TRUE
          ELSE IF ev.kind = "RedrawRequested" THEN FALSE
          ELSE redrawPending
    /\ viewport' = LastArg(tr, "gl::Viewport", viewport)
    /\ UNCHANGED <<shell, delegate>>
    /\ UNCHANGED glVars

Event(k, s) == [kind |-> k, size |-> s]

\* GlApp::window_event, one action for each arm of the match

window_event_CloseRequested ==
    /\ shell = "GlApp"
    /\ CanDispatch
    /\ Handled(Event("CloseRequested", NoArg), CloseArm, TRUE)
    /\ UNCHANGED stepVars

window_event_RedrawRequested ==
    /\ shell = "GlApp"
    /\ CanDispatch
    /\ \E swapOk \in BOOLEAN :
          Handled(Event("RedrawRequested", NoArg), RedrawArm(delegate), swapOk)
    /\ UNCHANGED stepVars

window_event_Resized ==
    /\ shell = "GlApp"
    /\ CanDispatch
    /\ \E size \in Sizes :
          Handled(Event("Resized", size), ResizedArm(delegate, size), TRUE)
    /\ UNCHANGED stepVars

window_event_Other ==
    /\ shell = "GlApp"
    /\ CanDispatch
    /\ \E k \in OtherKinds : Handled(Event(k, NoArg), OtherArm, TRUE)
    /\ UNCHANGED stepVars

\* DoNothing::window_event of the binary, one action for each arm

DoNothing_CloseRequested ==
    /\ shell = "DoNothing"
    /\ CanDispatch
    /\ Handled(Event("CloseRequested", NoArg), DoNothingCloseArm, TRUE)
    /\ UNCHANGED stepVars

DoNothing_RedrawRequested ==
    /\ shell = "DoNothing"
    /\ CanDispatch
    /\ \E swapOk \in BOOLEAN :
          Handled(Event("RedrawRequested", NoArg), DoNothingRedrawArm, swapOk)
    /\ UNCHANGED stepVars

DoNothing_Other ==
    /\ shell = "DoNothing"
    /\ CanDispatch
    /\ \/ \E k \in OtherKinds : Handled(Event(k, NoArg), DoNothingOtherArm, TRUE)
       \/ \E size \in Sizes : Handled(Event("Resized", size), DoNothingOtherArm, TRUE)
    /\ UNCHANGED stepVars

-----------------------------------------------------------------------------
(* The OpenGL context, as far as shader and program objects go.  Object    *)
(* names are handed out in increasing order and never reused, so a name    *)
(* identifies one object for the whole run.                                *)

Names == 1 .. MaxObjs

VERTEX_SHADER == 35633
FRAGMENT_SHADER == 35632
GEOMETRY_SHADER == 36313

\* bytes of a source or a log: the NUL byte and one other character
NUL == 0
CharE == 69
Bytes == {NUL, CharE}

\* all sequences over S of length at most n
RECURSIVE SeqsUpTo(_, _)
SeqsUpTo(S, n) ==
    IF n = 0 THEN {<<>>}
    ELSE LET shorter == SeqsUpTo(S, n - 1)
         IN shorter \cup {Append(q, b) : q \in {x \in shorter : Len(x) = n - 1}, b \in S}

Sources == SeqsUpTo(Bytes, MaxSrcLen)

\* the shader files bundled with the binary and the examples are GLSL text
TextSources == {src \in Sources : \A i \in 1 .. Len(src) : src[i] # NUL}

\* an info log held by the driver: the length it reports for INFO_LOG_LENGTH
\* and the characters it writes (at most len - 1, then a NUL)
EmptyLog == [len |-> 0, text |-> <<>>]
LogTexts == SeqsUpTo({CharE}, MaxLog)
Logs ==
    {lg \in [len : 0 .. MaxLog, text : LogTexts] :
        Len(lg.text) + 1 <= lg.len \/ (lg.len = 0 /\ lg.text = <<>>)}

\* what the driver answers to a compile or a link
DrvOutcomes ==
    {[ok |-> TRUE, log |-> EmptyLog]} \cup {[ok |-> FALSE, log |-> l] : l \in Logs}

GlInit ==
    [next |-> 1,
     shaders |-> {}, programs |-> {},
     kind |-> [n \in Names |-> 0],
     sourced |-> {}, compiled |-> {}, compileOk |-> {}, linkOk |-> {},
     log |-> [n \in Names |-> EmptyLog],
     attached |-> {}, flagged |-> {}, current |-> 0,
     delCalls |-> [n \in Names |-> 0],
     everAttached |-> {}, linkInputs |-> {}, uar |-> {}]

\* the objects that exist in the context
Live(g) == g.shaders \cup g.programs

\* an operation op names object n: remembered when n was released before
Use(g, op, n) ==
    IF n # 0 /\ g.delCalls[n] > 0 THEN [g EXCEPT !.uar = @ \cup {<<op, n>>}] ELSE g

glCreateShader(g, type) ==
    [g EXCEPT !.next = @ + 1, !.shaders = @ \cup {g.next}, !.kind[g.next] = type]

glCreateProgram(g) ==
    [g EXCEPT !.next = @ + 1, !.programs = @ \cup {g.next}]

glShaderSource(g, s, bytes) == [g EXCEPT !.sourced = @ \cup {s}]

glCompileShader(g, s, drv) ==
    [g EXCEPT !.compiled = @ \cup {s},
              !.compileOk = IF drv.ok THEN @ \cup {s} ELSE @ \ {s},
              !.log[s] = drv.log]

\* a shader flagged for deletion goes once no program has it attached
PurgeShaders(g) ==
    LET dead == {s \in g.shaders \cap g.flagged :
                    ~ \E p \in g.programs : <<p, s>> \in g.attached}
    IN [g EXCEPT !.shaders = @ \ dead, !.flagged = @ \ dead,
                 !.log = [n \in Names |-> IF n \in dead THEN EmptyLog ELSE @[n]]]

glDeleteShader(g, s) ==
    LET g1 == [g EXCEPT !.delCalls[s] = @ + 1]
    IN IF s \notin g.shaders THEN g1
       ELSE PurgeShaders([g1 EXCEPT !.flagged = @ \cup {s}])

\* the program object goes: its shaders are detached
RemoveProgram(g, p) ==
    PurgeShaders([g EXCEPT !.programs = @ \ {p}, !.flagged = @ \ {p},
                           !.attached = {a \in @ : a[1] # p},
                           !.log[p] = EmptyLog])

glDeleteProgram(g, p) ==
    LET g1 == [g EXCEPT !.delCalls[p] = @ + 1]
    IN IF p \notin g.programs THEN g1
       ELSE IF g.current = p THEN [g1 EXCEPT !.flagged = @ \cup {p}]
       ELSE RemoveProgram(g1, p)

glAttachShader(g, p, s) ==
    LET g1 == Use(Use(g, "AttachShader", p), "AttachShader", s)
    IN IF p \in g.programs /\ s \in g.shaders
       THEN [g1 EXCEPT !.attached = @ \cup {<<p, s>>},
                       !.everAttached = @ \cup {<<p, s>>}]
       ELSE g1

glDetachShader(g, p, s) ==
    LET g1 == Use(Use(g, "DetachShader", p), "DetachShader", s)
    IN PurgeShaders([g1 EXCEPT !.attached = @ \ {<<p, s>>}])

\* linking fails when an attached shader is not compiled successfully,
\* and otherwise when the driver says so
glLinkProgram(g, p, drv) ==
    LET ins == {s \in Names : <<p, s>> \in g.attached}
        ok == drv.ok /\ ins \subseteq g.compileOk
        g1 == Use(g, "LinkProgram", p)
    IN [g1 EXCEPT !.linkInputs = @ \cup {<<p, s>> : s \in ins},
                  !.linkOk = IF ok THEN @ \cup {p} ELSE @ \ {p},
                  !.log[p] = drv.log]

\* glUseProgram(0) unbinds; a program that is not linked cannot be made
\* current; a program flagged for deletion goes when it stops being current
glUseProgram(g, p) ==
    LET g1 == Use(g, "UseProgram", p)
    IN IF p # 0 /\ (p \notin g.programs \/ p \notin g.linkOk) THEN g1
       ELSE LET g2 == [g1 EXCEPT !.current = p]
            IN IF g.current # 0 /\ g.current # p /\ g.current \in g.flagged
               THEN RemoveProgram(g2, g.current)
               ELSE g2

\* a draw call runs the current program
glDrawArrays(g) == Use(g, "DrawArrays", g.current)

\* glGetShaderInfoLog / glGetProgramInfoLog into a zeroed buffer of bufSize
\* bytes: at most bufSize - 1 characters, then a NUL
RECURSIVE Zeros(_)
Zeros(n) == IF n <= 0 THEN <<>> ELSE <<NUL>> \o Zeros(n - 1)

glGetInfoLog(g, n, bufSize) ==
    LET text == g.log[n].text
        k == IF bufSize = 0 THEN 0
             ELSE IF Len(text) < bufSize - 1 THEN Len(text) ELSE bufSize - 1
    IN SubSeq(text, 1, k) \o Zeros(bufSize - k)

-----------------------------------------------------------------------------
(* src/glutil.rs: GlShaderType, GlShader, GlProgram and their errors *)

ShaderTypes == {"Vertex", "Fragment"}

\* GlShaderType::value
value(t) ==
    CASE t = "Vertex"   -> VERTEX_SHADER
      [] t = "Fragment" -> FRAGMENT_SHADER

\* fn get_shader_type(shader_type: GLenum) -> &'static str
get_shader_type(shader_type) ==
    CASE shader_type = VERTEX_SHADER   -> "vertex"
      [] shader_type = GEOMETRY_SHADER -> "geometry"
      [] shader_type = FRAGMENT_SHADER -> "fragment"
      [] OTHER                         -> "unknown"

\* position of the first NUL byte of v from index i on, 0 when there is none
RECURSIVE FirstNul(_, _)
FirstNul(v, i) ==
    IF i > Len(v) THEN 0
    ELSE IF v[i] = NUL THEN i
    ELSE FirstNul(v, i + 1)

\* a conversion that cuts the source at its first NUL instead of failing
CString_new_lossy(bytes) ==
    LET n == FirstNul(bytes, 1)
    IN [ok |-> TRUE,
        bytes |-> (IF n = 0 THEN bytes ELSE SubSeq(bytes, 1, n - 1)) \o <<NUL>>]

\* ffi::CString::new: NulError when the bytes hold a NUL, else the bytes
\* with the terminator appended
CString_new(bytes) ==
    IF FirstNul(bytes, 1) # 0 THEN [ok |-> FALSE, bytes |-> <<>>]
    ELSE [ok |-> TRUE, bytes |-> bytes \o <<NUL>>]

\* ffi::CString::from_vec_with_nul: Ok only when the one NUL is the last byte
from_vec_with_nul(v) ==
    IF FirstNul(v, 1) # 0 /\ FirstNul(v, 1) = Len(v) THEN [ok |-> TRUE, bytes |-> v]
    ELSE [ok |-> FALSE, bytes |-> <<>>]

\* what a call returns: Ok(handle), an error, or a panic that unwinds
Res(tag, id, shader_type, msg) ==
    [tag |-> tag, id |-> id, shader_type |-> shader_type, msg |-> msg]
NoRes == Res("none", 0, 0, <<>>)
PanicRes == Res("Panic", 0, 0, <<>>)

\* the Display label of an error value
ErrorLabel(res) == get_shader_type(res.shader_type)

\* impl Drop for GlShader
GlShader_drop(g, id) == glDeleteShader(g, id)

\* a GlProgram whose Drop releases nothing
GlProgram_drop_forgotten(g, id) == g

\* impl Drop for GlProgram
GlProgram_drop(g, id) == glDeleteProgram(g, id)

\* GlShader::get_shader_info_log, before the final unwrap()
get_shader_info_log(g, id) ==
    LET length == g.log[id].len
    IN from_vec_with_nul(glGetInfoLog(g, id, length))

\* GlProgram::get_program_info_log, before the final unwrap()
get_program_info_log(g, id) ==
    LET length == g.log[id].len
    IN from_vec_with_nul(glGetInfoLog(g, id, length))

\* GlShader::compile(shader_type, source)
GlShader_compile(g, shader_type, source, drv) ==
    LET shader == g.next
        g1 == glCreateShader(g, value(shader_type))
        shader_def == CString_new(source)
    IN IF ~shader_def.ok
       THEN [gl |-> GlShader_drop(g1, shader), res |-> Res("CStrError", 0, 0, <<>>)]
       ELSE LET g2 == glShaderSource(g1, shader, shader_def.bytes)
                g3 == glCompileShader(g2, shader, drv)
            IN IF shader \notin g3.compileOk
               THEN LET msg == get_shader_info_log(g3, shader)
                    IN IF ~msg.ok
                       THEN [gl |-> GlShader_drop(g3, shader), res |-> PanicRes]
                       ELSE [gl |-> GlShader_drop(g3, shader),
                             res |-> Res("CompileError", 0, value(shader_type), msg.bytes)]
               ELSE [gl |-> g3, res |-> Res("Ok", shader, 0, <<>>)]

\* dropping a Vec<GlShader>: each element in turn
RECURSIVE DropShaders(_, _)
DropShaders(g, shaders) ==
    IF shaders = <<>> THEN g
    ELSE DropShaders(GlShader_drop(g, Head(shaders)), Tail(shaders))

\* shaders.iter().map(GlShader::handle).for_each(|s| gl::AttachShader(program, s))
RECURSIVE AttachAll(_, _, _)
AttachAll(g, program, shaders) ==
    IF shaders = <<>> THEN g
    ELSE AttachAll(glAttachShader(g, program, Head(shaders)), program, Tail(shaders))

\* a link that deletes the shaders it was given once they are linked
GlProgram_link_consuming(g, shaders, drv) ==
    LET program == g.next
        g1 == glCreateProgram(g)
        g2 == AttachAll(g1, program, shaders)
        g3 == DropShaders(glLinkProgram(g2, program, drv), shaders)
    IN IF program \notin g3.linkOk
       THEN LET msg == get_program_info_log(g3, program)
            IN IF ~msg.ok
               THEN [gl |-> GlProgram_drop(g3, program), res |-> PanicRes]
               ELSE [gl |-> GlProgram_drop(g3, program),
                     res |-> Res("LinkError", 0, 0, msg.bytes)]
       ELSE [gl |-> g3, res |-> Res("Ok", program, 0, <<>>)]

\* GlProgram::link(shaders)
GlProgram_link(g, shaders, drv) ==
    LET program == g.next
        g1 == glCreateProgram(g)
        g2 == AttachAll(g1, program, shaders)
        g3 == glLinkProgram(g2, program, drv)
    IN IF program \notin g3.linkOk
       THEN LET msg == get_program_info_log(g3, program)
            IN IF ~msg.ok
               THEN [gl |-> GlProgram_drop(g3, program), res |-> PanicRes]
               ELSE [gl |-> GlProgram_drop(g3, program),
                     res |-> Res("LinkError", 0, 0, msg.bytes)]
       ELSE [gl |-> g3, res |-> Res("Ok", program, 0, <<>>)]

\* .unwrap() of a Result: an Err panics
unwrap(r) == IF r.res.tag = "Ok" THEN r ELSE [gl |-> r.gl, res |-> PanicRes]

\* GlShader::compile_unwrap
GlShader_compile_unwrap(g, shader_type, source, drv) ==
    unwrap(GlShader_compile(g, shader_type, source, drv))

\* GlProgram::link_unwrap
GlProgram_link_unwrap(g, shaders, drv) == unwrap(GlProgram_link(g, shaders, drv))

\* the elements of a set of names in increasing order
RECURSIVE SetToSeq(_)
SetToSeq(S) ==
    IF S = {} THEN <<>>
    ELSE LET m == CHOOSE x \in S : \A y \in S : x <= y
         IN <<m>> \o SetToSeq(S \ {m})

RECURSIVE DropPrograms(_, _)
DropPrograms(g, programs) ==
    IF programs = <<>> THEN g
    ELSE DropPrograms(GlProgram_drop(g, Head(programs)), Tail(programs))

-----------------------------------------------------------------------------
(* A client of the library: any sequence of compile, link and drop *)

LastCall(op, t, src, drv, given, g, res) ==
    [op |-> op, shader_type |-> t, source |-> src, drv |-> drv, given |-> given,
     obj |-> g.next, liveBefore |-> Live(g), delBefore |-> g.delCalls, res |-> res]

NoCall == LastCall("none", "none", <<>>, [ok |-> TRUE, log |-> EmptyLog], {}, GlInit, NoRes)

AfterCall(r) == IF r.res.tag = "Panic" THEN "panicked" ELSE pc

LibCompile ==
    /\ prog = "lib" /\ pc = "loop" /\ gl.next <= MaxLibObjs
    /\ \E t \in ShaderTypes, src \in Sources, drv \in DrvOutcomes :
          \E r \in {GlShader_compile(gl, t, src, drv)} :
             /\ gl' = r.gl
             /\ shaderVals' = IF r.res.tag = "Ok" THEN shaderVals \cup {r.res.id}
                              ELSE shaderVals
             /\ pc' = AfterCall(r)
             /\ last' = LastCall("compile", t, src, drv, {}, gl, r.res)
    /\ UNCHANGED <<prog, programVals, rawProgram>>
    /\ UNCHANGED shellVars

LibLink ==
    /\ prog = "lib" /\ pc = "loop" /\ gl.next <= MaxLibObjs
    /\ \E given \in SUBSET shaderVals, drv \in DrvOutcomes :
          \E r \in {GlProgram_link(gl, SetToSeq(given), drv)} :
             /\ gl' = r.gl
             /\ programVals' = IF r.res.tag = "Ok" THEN programVals \cup {r.res.id}
                               ELSE programVals
             /\ pc' = AfterCall(r)
             /\ last' = LastCall("link", "none", <<>>, drv, given, gl, r.res)
    /\ UNCHANGED <<prog, shaderVals, rawProgram>>
    /\ UNCHANGED shellVars

LibDropShader ==
    /\ prog = "lib" /\ pc = "loop"
    /\ \E s \in shaderVals :
          /\ gl' = GlShader_drop(gl, s)
          /\ shaderVals' = shaderVals \ {s}
          /\ last' = LastCall("drop_shader", "none", <<>>, NoCall.drv, {s}, gl, NoRes)
    /\ UNCHANGED <<prog, pc, programVals, rawProgram>>
    /\ UNCHANGED shellVars

LibDropProgram ==
    /\ prog = "lib" /\ pc = "loop"
    /\ \E p \in programVals :
          /\ gl' = GlProgram_drop(gl, p)
          /\ programVals' = programVals \ {p}
          /\ last' = LastCall("drop_program", "none", <<>>, NoCall.drv, {p}, gl, NoRes)
    /\ UNCHANGED <<prog, pc, shaderVals, rawProgram>>
    /\ UNCHANGED shellVars

\* gl::UseProgram(program.handle()) followed by a draw and gl::UseProgram(0),
\* as the display functions of the examples do with a program they own
LibDraw ==
    /\ prog = "lib" /\ pc = "loop"
    /\ \E p \in programVals :
          /\ gl' = glUseProgram(glDrawArrays(glUseProgram(gl, p)), 0)
          /\ last' = LastCall("draw", "none", <<>>, NoCall.drv, {p}, gl, NoRes)
    /\ UNCHANGED <<prog, pc, shaderVals, programVals, rawProgram>>
    /\ UNCHANGED shellVars

GlStateInit ==
    /\ gl = GlInit
    /\ shaderVals = {}
    /\ programVals = {}
    /\ rawProgram = 0
    /\ last = NoCall


-----------------------------------------------------------------------------
(* The program-building paths of the examples and of the binary *)

\* examples 01, 02 and 03_2 keep the GlProgram they build; 02 builds two
RaiiExamples == {"ex01", "ex02", "ex03_2"}
Programs == {"lib", "main", "ex03_1"} \cup RaiiExamples
ProgramsNeeded(e) == IF e = "ex02" THEN 2 ELSE 1

\* fn init_program() -> GlProgram of example 01; init_ygrad_program and
\* init_tricolor_program of example 02 and init_program of example 03_2 are
\* the same code
init_program(g, srcV, srcF, dv, df, dl) ==
    LET c1 == GlShader_compile_unwrap(g, "Vertex", srcV, dv)
    IN IF c1.res.tag # "Ok" THEN c1
       ELSE LET c2 == GlShader_compile_unwrap(c1.gl, "Fragment", srcF, df)
            IN IF c2.res.tag # "Ok"
               THEN [gl |-> DropShaders(c2.gl, <<c1.res.id>>), res |-> PanicRes]
               ELSE LET shader_list == <<c1.res.id, c2.res.id>>
                        l == GlProgram_link_unwrap(c2.gl, shader_list, dl)
                    IN [gl |-> DropShaders(l.gl, shader_list), res |-> l.res]

\* TriangleExample::display and the render closures of example 02:
\* UseProgram(program.handle()), draw, UseProgram(0)
TriangleExample_display(g, program) ==
    glUseProgram(glDrawArrays(glUseProgram(g, program)), 0)

RECURSIVE DisplayAll(_, _)
DisplayAll(g, programs) ==
    IF programs = <<>> THEN g
    ELSE DisplayAll(TriangleExample_display(g, Head(programs)), Tail(programs))

\* fn use_program() of example 03_1: the program is made current, then the
\* locals go out of scope, `program` first and `shader_list` after it
use_program(g, srcV, srcF, dv, df, dl) ==
    LET c1 == GlShader_compile_unwrap(g, "Vertex", srcV, dv)
    IN IF c1.res.tag # "Ok" THEN c1
       ELSE LET c2 == GlShader_compile_unwrap(c1.gl, "Fragment", srcF, df)
            IN IF c2.res.tag # "Ok"
               THEN [gl |-> DropShaders(c2.gl, <<c1.res.id>>), res |-> PanicRes]
               ELSE LET shader_list == <<c1.res.id, c2.res.id>>
                        l == GlProgram_link_unwrap(c2.gl, shader_list, dl)
                    IN IF l.res.tag # "Ok"
                       THEN [gl |-> DropShaders(l.gl, shader_list), res |-> PanicRes]
                       ELSE LET program == l.res.id
                                g1 == glUseProgram(l.gl, program)
                                g2 == GlProgram_drop(g1, program)
                            IN [gl |-> DropShaders(g2, shader_list),
                                res |-> Res("Ok", 0, 0, <<>>)]

\* MovingTriangle::display of example 03_1: draws with whatever is current
MovingTriangle_display(g) == glDrawArrays(g)

\* fn create_shader(shader_type, shader_def) of src/runtime.rs
create_shader(g, shader_type, shader_def, drv) ==
    LET shader == g.next
        g1 == glCreateShader(g, shader_type)
        cstr == CString_new(shader_def)
    IN IF ~cstr.ok THEN [gl |-> g1, res |-> PanicRes]
       ELSE [gl |-> glCompileShader(glShaderSource(g1, shader, cstr.bytes), shader, drv),
             res |-> Res("Ok", shader, 0, <<>>)]

RECURSIVE DetachAll(_, _, _)
DetachAll(g, program, shader_list) ==
    IF shader_list = <<>> THEN g
    ELSE DetachAll(glDetachShader(g, program, Head(shader_list)), program,
                   Tail(shader_list))

\* fn create_program(shader_list) of src/runtime.rs
create_program(g, shader_list, drv) ==
    LET program == g.next
        g1 == glCreateProgram(g)
        g2 == AttachAll(g1, program, shader_list)
        g3 == glLinkProgram(g2, program, drv)
        info_log == from_vec_with_nul(glGetInfoLog(g3, program, g3.log[program].len))
    IN IF program \notin g3.linkOk /\ ~info_log.ok
       THEN [gl |-> g3, res |-> PanicRes]
       ELSE [gl |-> DetachAll(g3, program, shader_list),
             res |-> Res("Ok", program, 0, <<>>)]

RECURSIVE DeleteShaders(_, _)
DeleteShaders(g, shader_list) ==
    IF shader_list = <<>> THEN g
    ELSE DeleteShaders(glDeleteShader(g, Head(shader_list)), Tail(shader_list))

\* fn init_program() -> GLuint of src/runtime.rs
runtime_init_program(g, srcV, srcF, dv, df, dl) ==
    LET c1 == create_shader(g, VERTEX_SHADER, srcV, dv)
    IN IF c1.res.tag # "Ok" THEN c1
       ELSE LET c2 == create_shader(c1.gl, FRAGMENT_SHADER, srcF, df)
            IN IF c2.res.tag # "Ok" THEN c2
               ELSE LET shader_list == <<c1.res.id, c2.res.id>>
                        p == create_program(c2.gl, shader_list, dl)
                    IN IF p.res.tag # "Ok" THEN p
                       ELSE [gl |-> DeleteShaders(p.gl, shader_list), res |-> p.res]

\* TriangleExample::display of src/runtime.rs
runtime_display(g, program) ==
    glUseProgram(glDrawArrays(glUseProgram(g, program)), 0)

ExampleInit ==
    /\ prog \in RaiiExamples /\ pc = "init" /\ gl.next + 2 <= MaxObjs
    /\ \E srcV \in TextSources, srcF \in TextSources,
          dv \in DrvOutcomes, df \in DrvOutcomes, dl \in DrvOutcomes :
          \E r \in {init_program(gl, srcV, srcF, dv, df, dl)} :
          LET owned == IF r.res.tag = "Ok" THEN programVals \cup {r.res.id}
                       ELSE programVals
          IN /\ gl' = r.gl
             /\ programVals' = owned
             /\ pc' = IF r.res.tag # "Ok" THEN "panicked"
                      ELSE IF Cardinality(owned) = ProgramsNeeded(prog) THEN "loop"
                      ELSE "init"
             /\ last' = LastCall("init_program", "none", <<>>, NoCall.drv, {}, gl, r.res)
    /\ UNCHANGED <<prog, shaderVals, rawProgram>>
    /\ UNCHANGED shellVars

ExampleDisplay ==
    /\ prog \in RaiiExamples /\ pc = "loop"
    /\ gl' = DisplayAll(gl, SetToSeq(programVals))
    /\ last' = LastCall("display", "none", <<>>, NoCall.drv, programVals, gl, NoRes)
    /\ UNCHANGED <<prog, pc, shaderVals, programVals, rawProgram>>
    /\ UNCHANGED shellVars

\* main returns: the values it owns are dropped
ExampleExit ==
    /\ prog \in RaiiExamples \cup {"ex03_1"} /\ pc = "loop"
    /\ gl' = DropPrograms(gl, SetToSeq(programVals))
    /\ programVals' = {}
    /\ pc' = "done"
    /\ last' = LastCall("exit", "none", <<>>, NoCall.drv, programVals, gl, NoRes)
    /\ UNCHANGED <<prog, shaderVals, rawProgram>>
    /\ UNCHANGED shellVars

MovingUseProgram ==
    /\ prog = "ex03_1" /\ pc = "init" /\ gl.next + 2 <= MaxObjs
    /\ \E srcV \in TextSources, srcF \in TextSources,
          dv \in DrvOutcomes, df \in DrvOutcomes, dl \in DrvOutcomes :
          \E r \in {use_program(gl, srcV, srcF, dv, df, dl)} :
             /\ gl' = r.gl
             /\ pc' = IF r.res.tag # "Ok" THEN "panicked" ELSE "loop"
             /\ last' = LastCall("use_program", "none", <<>>, NoCall.drv, {}, gl, r.res)
    /\ UNCHANGED <<prog, shaderVals, programVals, rawProgram>>
    /\ UNCHANGED shellVars

MovingDisplay ==
    /\ prog = "ex03_1" /\ pc = "loop"
    /\ gl' = MovingTriangle_display(gl)
    /\ last' = LastCall("display", "none", <<>>, NoCall.drv, {}, gl, NoRes)
    /\ UNCHANGED <<prog, pc, shaderVals, programVals, rawProgram>>
    /\ UNCHANGED shellVars

RuntimeInit ==
    /\ prog = "main" /\ pc = "init" /\ gl.next + 2 <= MaxObjs
    /\ \E srcV \in TextSources, srcF \in TextSources,
          dv \in DrvOutcomes, df \in DrvOutcomes, dl \in DrvOutcomes :
          \E r \in {runtime_init_program(gl, srcV, srcF, dv, df, dl)} :
             /\ gl' = r.gl
             /\ rawProgram' = r.res.id
             /\ pc' = IF r.res.tag # "Ok" THEN "panicked" ELSE "loop"
             /\ last' = LastCall("init_program", "none", <<>>, NoCall.drv, {}, gl, r.res)
    /\ UNCHANGED <<prog, shaderVals, programVals>>
    /\ UNCHANGED shellVars

RuntimeDisplay ==
    /\ prog = "main" /\ pc = "loop"
    /\ gl' = runtime_display(gl, rawProgram)
    /\ last' = LastCall("display", "none", <<>>, NoCall.drv, {rawProgram}, gl, NoRes)
    /\ UNCHANGED <<prog, pc, shaderVals, programVals, rawProgram>>
    /\ UNCHANGED shellVars

\* the `match event` of GlApp::window_event
ArmOf(d, ev) ==
    CASE ev.kind = "CloseRequested"  -> CloseArm
      [] ev.kind = "RedrawRequested" -> RedrawArm(d)
      [] ev.kind = "Resized"         -> ResizedArm(d, ev.size)
      [] OTHER                       -> OtherArm

\* the sizes and the events the window system posts in SpecSteps
StepSizes == {<<3, Pow2(WordBits) - 1>>}
StepEvents ==
    {Event("CloseRequested", NoArg), Event("RedrawRequested", NoArg)}
        \cup {Event("Resized", size) : size \in StepSizes}
        \cup {Event(k, NoArg) : k \in OtherKinds}

\* an event loop that calls window_event while a call of it is running
HandlerMutReentered == TRUE

\* window_event(&mut self, ..) is called by run_app on the thread of the
\* event loop: the call before it has returned
HandlerReturned == todo = <<>>

\* the window system posts an event; it does so at any moment
PostEvent ==
    /\ shell = "GlApp"
    /\ nDispatched + Len(queue) < MaxEvents
    /\ \E ev \in StepEvents : queue' = Append(queue, ev)
    /\ UNCHANGED <<todo, log, nDispatched>>
    /\ UNCHANGED handlerVars
    /\ UNCHANGED glVars

\* run_app takes the next event and calls window_event with it
Dispatch ==
    /\ shell = "GlApp"
    /\ Running
    /\ HandlerReturned
    /\ queue # <<>>
    /\ \E ev \in {Head(queue)} : \E tr \in {ArmOf(delegate, ev)} :
          /\ queue' = Tail(queue)
          /\ nDispatched' = nDispatched + 1
          /\ log' = log
          /\ IF tr = <<>>
             THEN /\ Handled(ev, tr, TRUE)
                  /\ todo' = todo
             ELSE /\ todo' = [i \in 1 .. Len(tr) |->
                                 [n |-> nDispatched + 1, c |-> tr[i]]] \o todo
                  /\ lastEvent' = ev
                  /\ trace' = <<>>
                  /\ UNCHANGED <<shell, delegate, exiting, crashed, swapFailed,
                                 redrawPending, nDisplay, nReshape, nSwap,
                                 nRedrawEv, nCloseEv, nEvents, viewport, frame>>
                  /\ UNCHANGED glVars

\* the running handler makes its next call; with the last one it returns,
\* with a failed swap_buffers it panics
HandlerStep ==
    /\ shell = "GlApp"
    /\ ~crashed
    /\ todo # <<>>
    /\ \E h \in {Head(todo)} :
       \E ok \in (IF h.c.call = "swap_buffers" THEN BOOLEAN ELSE {TRUE}) :
          /\ log' = Append(log, h.n)
          /\ UNCHANGED <<queue, nDispatched>>
          /\ IF expect(ok)
             THEN /\ todo' = <<>>
                  /\ Handled(lastEvent, Append(trace, h.c), ok)
             ELSE IF Tail(todo) = <<>>
             THEN /\ todo' = <<>>
                  /\ Handled(lastEvent, Append(trace, h.c), ok)
             ELSE /\ todo' = Tail(todo)
                  /\ trace' = Append(trace, h.c)
                  /\ UNCHANGED <<shell, delegate, exiting, crashed, swapFailed,
                                 redrawPending, lastEvent, nDisplay, nReshape,
                                 nSwap, nRedrawEv, nCloseEv, nEvents, viewport,
                                 frame>>
                  /\ UNCHANGED glVars

\* GlApp::window_event in a run without a bound on the number of events

Live_CloseRequested ==
    /\ shell = "GlApp"
    /\ Running
    /\ Handled(Event("CloseRequested", NoArg), CloseArm, TRUE)
    /\ UNCHANGED stepVars

\* a RedrawRequested the window system sends of its own accord
Live_RedrawRequested ==
    /\ shell = "GlApp"
    /\ Running
    /\ \E swapOk \in BOOLEAN :
          Handled(Event("RedrawRequested", NoArg), RedrawArm(delegate), swapOk)
    /\ UNCHANGED stepVars

\* the RedrawRequested the event loop delivers for a pending request_redraw
Live_RedrawServed ==
    /\ redrawPending
    /\ Live_RedrawRequested

Live_Resized ==
    /\ shell = "GlApp"
    /\ Running
    /\ \E size \in Sizes :
          Handled(Event("Resized", size), ResizedArm(delegate, size), TRUE)
    /\ UNCHANGED stepVars

Live_Other ==
    /\ shell = "GlApp"
    /\ Running
    /\ \E k \in OtherKinds : Handled(Event(k, NoArg), OtherArm, TRUE)
    /\ UNCHANGED stepVars

\* the state of a handler before the first event
HandlerInit ==
    /\ exiting = FALSE
    /\ crashed = FALSE
    /\ swapFailed = FALSE
    /\ redrawPending = FALSE
    /\ lastEvent = Event("none", NoArg)
    /\ trace = <<>>
    /\ nDisplay = 0
    /\ nReshape = 0
    /\ nSwap = 0
    /\ nRedrawEv = 0
    /\ nCloseEv = 0
    /\ nEvents = 0
    /\ viewport = <<0, 0, 0, 0>>
    /\ frame = 0
    /\ queue = <<>>
    /\ todo = <<>>
    /\ log = <<>>
    /\ nDispatched = 0

ShellInit ==
    /\ shell = "GlApp"
    /\ delegate \in Delegates
    /\ HandlerInit

Init ==
    /\ ShellInit
    /\ GlStateInit
    /\ prog = "lib"
    /\ pc = "loop"

Next ==
    \/ window_event_CloseRequested
    \/ window_event_RedrawRequested
    \/ window_event_Resized
    \/ window_event_Other

Spec == Init /\ [][Next]_vars

InitGl ==
    /\ ShellInit
    /\ delegate = "default"
    /\ GlStateInit
    /\ prog \in Programs
    /\ pc = IF prog = "lib" THEN "loop" ELSE "init"

NextGl ==
    \/ LibCompile
    \/ LibLink
    \/ LibDropShader
    \/ LibDropProgram
    \/ LibDraw
    \/ ExampleInit
    \/ ExampleDisplay
    \/ ExampleExit
    \/ MovingUseProgram
    \/ MovingDisplay
    \/ RuntimeInit
    \/ RuntimeDisplay

SpecGl == InitGl /\ [][NextGl]_vars

InitShells ==
    /\ shell \in {"GlApp", "DoNothing"}
    /\ delegate \in (IF shell = "GlApp" THEN Delegates ELSE {"none"})
    /\ HandlerInit
    /\ GlStateInit
    /\ prog = (IF shell = "GlApp" THEN "lib" ELSE "main")
    /\ pc = "loop"

NextShells ==
    \/ window_event_CloseRequested
    \/ window_event_RedrawRequested
    \/ window_event_Resized
    \/ window_event_Other
    \/ DoNothing_CloseRequested
    \/ DoNothing_RedrawRequested
    \/ DoNothing_Other

SpecShells == InitShells /\ [][NextShells]_vars

NextSteps ==
    \/ PostEvent
    \/ Dispatch
    \/ HandlerStep

SpecSteps == Init /\ [][NextSteps]_vars

NextLive ==
    \/ Live_CloseRequested
    \/ Live_RedrawRequested
    \/ Live_RedrawServed
    \/ Live_Resized
    \/ Live_Other

\* a pending redraw request is delivered: the event loop does not leave it
\* waiting forever
SpecLive == Init /\ [][NextLive]_vars /\ WF_vars(Live_RedrawServed)

-----------------------------------------------------------------------------
(* Properties of the application shell, checked under Spec *)

C2_RedrawDisplaysAndSwapsOnce ==
    /\ nSwap = nRedrawEv
    /\ lastEvent.kind = "RedrawRequested" =>
          /\ Count(trace, "display") = 1
          /\ Count(trace, "swap_buffers") = 1
          /\ Count(trace, "reshape") = 0

C2_Witness ==
    lastEvent.kind = "RedrawRequested" /\ nRedrawEv = 2 /\ nSwap = 2 /\ nReshape = 1

\* C3: handling one Resized(size) event calls reshape exactly once, with the
\* size the event carries, and calls neither display nor swap_buffers.
C3_ResizeReshapesOnce ==
    lastEvent.kind = "Resized" =>
        /\ Count(trace, "reshape") = 1
        /\ trace[IndexOf(trace, "reshape", 1)].arg = lastEvent.size
        /\ Count(trace, "display") = 0
        /\ Count(trace, "swap_buffers") = 0

C3_Witness ==
    /\ lastEvent.kind = "Resized"
    /\ lastEvent.size[1] # lastEvent.size[2]
    /\ nReshape = 2
    /\ nDisplay = 1

-----------------------------------------------------------------------------
(* Properties of shader and program objects, checked under SpecGl *)

HasNul(src) == \E i \in 1 .. Len(src) : src[i] = NUL

\* C4: every shader attached to a program, and every shader attached when
\* the link step runs, has compile status success, in every program-building
\* path of the repository.
C4_OnlyCompiledShadersLinked ==
    \A a \in gl.everAttached \cup gl.linkInputs : a[2] \in gl.compileOk

\* C5: every object created through GlShader / GlProgram is deleted exactly
\* once, when its owning value is dropped, and no operation refers to it
\* after that deletion.
C5_ReleasedOnceNeverUsedAfter ==
    prog # "main" =>
        /\ \A n \in shaderVals \cup programVals : gl.delCalls[n] = 0
        /\ \A n \in 1 .. (gl.next - 1) :
              n \notin shaderVals \cup programVals => gl.delCalls[n] = 1
        /\ gl.uar = {}

\* C6: a source holding a NUL byte makes GlShader::compile return CStrError,
\* for either shader kind, and CompileShader is not run on the object.
C6_NulSourceIsCStrError ==
    (last.op = "compile" /\ HasNul(last.source)) =>
        /\ last.res.tag = "CStrError"
        /\ last.obj \notin gl.compiled

C6_Witness ==
    /\ last.op = "compile"
    /\ last.source = <<CharE, NUL>>
    /\ last.shader_type = "Fragment"
    /\ last.res.tag = "CStrError"

\* C7: when the compile step fails for a NUL-free source, GlShader::compile
\* returns a CompileError that carries the diagnostic and whose label is
\* "vertex" for a vertex shader and "fragment" for a fragment shader.
C7_CompileErrorCarriesKind ==
    (last.op = "compile" /\ ~HasNul(last.source) /\ ~last.drv.ok) =>
        /\ last.res.tag = "CompileError"
        /\ last.res.msg = last.drv.log.text \o <<NUL>>
        /\ ErrorLabel(last.res) =
              (IF last.shader_type = "Vertex" THEN "vertex" ELSE "fragment")

\* C8: when GlShader::compile returns CStrError or CompileError, or
\* GlProgram::link returns LinkError, the object allocated by the call was
\* deleted, and the live objects are those that were live before the call.
C8_NoLeakOnError ==
    (last.op \in {"compile", "link"}
        /\ last.res.tag \in {"CStrError", "CompileError", "LinkError"}) =>
        /\ gl.delCalls[last.obj] = 1
        /\ last.obj \notin Live(gl)
        /\ Live(gl) = last.liveBefore

C8_Witness ==
    /\ last.op = "link"
    /\ last.res.tag = "LinkError"
    /\ Cardinality(last.given) = 2
    /\ last.obj = 3

\* C9: when the link step fails GlProgram::link returns a LinkError carrying
\* the diagnostic and no handle; when it succeeds link returns the handle.
C9_LinkResultFollowsStatus ==
    last.op = "link" =>
        IF last.drv.ok
        THEN last.res.tag = "Ok" /\ last.res.id = last.obj
        ELSE /\ last.res.tag = "LinkError"
             /\ last.res.id = 0
             /\ last.res.msg = last.drv.log.text \o <<NUL>>

\* C10: GlProgram::link deletes none of the shaders it is given: each is
\* still a live object owned by the caller after the call, whether the link
\* succeeded or failed; a shader is deleted only when its owner drops it.
C10_LinkLeavesShaders ==
    /\ last.op = "link" =>
          \A s \in last.given :
              /\ s \in shaderVals
              /\ s \in gl.shaders /\ s \notin gl.flagged
              /\ gl.delCalls[s] = last.delBefore[s]
    /\ \A s \in shaderVals : s \in gl.shaders /\ gl.delCalls[s] = 0

C10_Witness ==
    /\ last.op = "link"
    /\ Cardinality(last.given) = 2
    /\ last.res.tag = "LinkError"
    /\ shaderVals = last.given

-----------------------------------------------------------------------------
(* Properties of both event handlers, checked under SpecShells *)

\* C11: when swap_buffers fails while a RedrawRequested event is handled the
\* process panics at once: the failing call is the one swap of that event and
\* its last call, and after it no event is handled and neither display nor
\* reshape nor swap_buffers is called again.
C11_SwapFailureIsFatal ==
    [][/\ (swapFailed' /\ ~swapFailed) =>
              /\ crashed'
              /\ lastEvent'.kind = "RedrawRequested"
              /\ Count(trace', "swap_buffers") = 1
              /\ trace'[Len(trace')].call = "swap_buffers"
       /\ swapFailed =>
              /\ nEvents' = nEvents
              /\ lastEvent' = lastEvent
              /\ trace' = trace
              /\ nDisplay' = nDisplay
              /\ nReshape' = nReshape
              /\ nSwap' = nSwap]_vars

C11_Witness ==
    /\ swapFailed
    /\ crashed
    /\ shell = "GlApp"
    /\ nDisplay = 2
    /\ nReshape = 1
    /\ nEvents < MaxEvents

-----------------------------------------------------------------------------
(* Further properties of the application shell, checked under Spec *)

\* C12: a window event other than CloseRequested, RedrawRequested and Resized
\* leaves the shell as it was: handling it makes no call at all (no display,
\* no reshape, no flush, no surface resize, no buffer swap, no exit), and the
\* exit flag, the viewport and the pending redraw request stay what they were.
C12_OtherEventsIgnored ==
    [][(/\ nEvents' > nEvents
        /\ lastEvent'.kind \notin {"CloseRequested", "RedrawRequested", "Resized"}) =>
           /\ trace' = <<>>
           /\ UNCHANGED <<nDisplay, nReshape, nSwap, exiting, crashed, swapFailed,
                          viewport, redrawPending, frame, delegate>>]_vars

C12_Witness ==
    /\ lastEvent.kind \in OtherKinds
    /\ nDisplay > 0
    /\ nReshape > 0
    /\ redrawPending
    /\ viewport # <<0, 0, 0, 0>>

\* C13: a GlApp built with GlAppBuilder::new() makes, for every event, the
\* calls a GlApp with the provided GlAppDelegate methods makes for that event
\* (display makes none, reshape sets the viewport to the new size); a builder
\* given closures calls the display closure once in every display and the
\* reshape closure once in every reshape, with the size of the event.
C13_BuilderMatchesProvidedMethods ==
    /\ delegate = "builder" =>
          /\ trace = ArmOf("default", lastEvent)
          /\ lastEvent.kind = "RedrawRequested" => Len(trace) = 4
          /\ lastEvent.kind = "Resized" =>
                Count(trace, "gl::Viewport") = 1
    /\ delegate \in {"closures", "ex02"} =>
          /\ Count(trace, "display_fn") = Count(trace, "display")
          /\ Count(trace, "reshape_fn") = Count(trace, "reshape")
          /\ lastEvent.kind = "RedrawRequested" => Count(trace, "display_fn") = 1
          /\ lastEvent.kind = "Resized" =>
                /\ Count(trace, "reshape_fn") = 1
                /\ LastArg(trace, "reshape_fn", NoArg) = lastEvent.size
                /\ LastArg(trace, "reshape", NoArg) = lastEvent.size

C13_Witness ==
    /\ delegate = "builder"
    /\ lastEvent.kind = "Resized"
    /\ viewport = <<0, 0, 3, 3>>
    /\ nDisplay > 0

\* C14: the calls made for one RedrawRequested event are, in this order and
\* each once: display (with everything its body does), gl::Flush,
\* pre_present_notify, swap_buffers; nothing follows the swap.
C14_RedrawOrder ==
    lastEvent.kind = "RedrawRequested" =>
        /\ Count(trace, "display") = 1
        /\ Count(trace, "gl::Flush") = 1
        /\ Count(trace, "pre_present_notify") = 1
        /\ Count(trace, "swap_buffers") = 1
        /\ IndexOf(trace, "display", 1) = 1
        /\ IndexOf(trace, "gl::Flush", 1) = Len(trace) - 2
        /\ IndexOf(trace, "pre_present_notify", 1) = Len(trace) - 1
        /\ IndexOf(trace, "swap_buffers", 1) = Len(trace)

C14_Witness ==
    /\ lastEvent.kind = "RedrawRequested"
    /\ delegate = "moving"
    /\ Len(trace) = 6
    /\ ~crashed

\* C15: the calls made for one Resized event are the resize of the surface
\* and then reshape (with everything its body does), each once.
C15_ResizeOrder ==
    lastEvent.kind = "Resized" =>
        /\ Count(trace, "resize_surface") = 1
        /\ Count(trace, "reshape") = 1
        /\ IndexOf(trace, "resize_surface", 1) = 1
        /\ IndexOf(trace, "reshape", 1) = 2

C15_Witness ==
    /\ lastEvent.kind = "Resized"
    /\ delegate = "ex02"
    /\ Len(trace) = 4

\* C16: the shell adds no request_redraw of its own: the requests made while
\* an event is handled are those of the body of display; with a delegate
\* whose display makes none no request is ever pending, and display has been
\* called as often as RedrawRequested events were handled.
C16_ShellNeverRequestsRedraw ==
    /\ Count(trace, "request_redraw") =
          (IF lastEvent.kind = "RedrawRequested"
           THEN Count(display(delegate), "request_redraw") ELSE 0)
    /\ Count(display(delegate), "request_redraw") = 0 =>
          /\ ~redrawPending
          /\ nDisplay = nRedrawEv

C16_Witness ==
    /\ delegate = "default"
    /\ nRedrawEv = 1
    /\ nDisplay = 1
    /\ nEvents = 3
    /\ ~redrawPending
    /\ ~crashed

-----------------------------------------------------------------------------
(* The moving triangle in a run without end, checked under SpecLive *)

-----------------------------------------------------------------------------
(* The event loop call by call, checked under SpecSteps *)

\* C18: the calls of two events are never interleaved: in the order in which
\* calls are made the numbers of their events never decrease, the calls still
\* to be made all belong to the event dispatched last, and while a handler is
\* running every event dispatched before it has been handled to the end.
C18_HandlersDoNotInterleave ==
    /\ \A i, j \in DOMAIN log : i < j => log[i] <= log[j]
    /\ \A i \in DOMAIN todo : todo[i].n = nDispatched
    /\ todo # <<>> => nEvents = nDispatched - 1
    /\ todo = <<>> => nEvents = nDispatched

C18_Witness ==
    /\ todo # <<>>
    /\ trace # <<>>
    /\ queue # <<>>
    /\ nDispatched = 2
    /\ Len(log) >= 5
    /\ log[1] = 1

-----------------------------------------------------------------------------
(* The viewport after a resize, checked under Spec *)

\* C19: after a Resized event handled with the provided reshape (the provided
\* method, or the reshape_fn of GlAppBuilder::new()) the viewport has origin
\* (0, 0) and the width and height of the event, for every u32 width and
\* height.
C19_DefaultReshapeCoversSize ==
    (lastEvent.kind = "Resized" /\ delegate \in {"default", "builder", "moving"}) =>
        viewport = <<0, 0, lastEvent.size[1], lastEvent.size[2]>>

\* C20: after a Resized event of size (w, h) handled by example 02 the
\* viewport is a square of side min(w, h) inside the window, with offset
\* floor(|w - h| / 2) on the longer axis and 0 on the shorter one, and no
\* larger square fits in the window.
C20_CenteredSquare ==
    (lastEvent.kind = "Resized" /\ delegate = "ex02") =>
        LET w == lastEvent.size[1]
            h == lastEvent.size[2]
            side == IF w < h THEN w ELSE h
            x == viewport[1]
            y == viewport[2]
        IN  /\ viewport[3] = side
            /\ viewport[4] = side
            /\ x = (IF w > h THEN (w - h) \div 2 ELSE 0)
            /\ y = (IF h > w THEN (h - w) \div 2 ELSE 0)
            /\ x >= 0 /\ x + side <= w
            /\ y >= 0 /\ y + side <= h
            /\ (side + 1 > w \/ side + 1 > h)

-----------------------------------------------------------------------------
(* The info log of a failed compile or link, checked under SpecGl *)

\* C21: when the compile step or the link step reports failure,
\* GlShader::compile or GlProgram::link returns an error value and does not
\* panic, whatever INFO_LOG_LENGTH the driver reports and whatever it writes
\* into the buffer (a length of 0 and a buffer with a zero byte before its
\* last byte included).
C21_FailureReturnsError ==
    (/\ last.op \in {"compile", "link"}
     /\ ~last.drv.ok
     /\ last.op = "compile" => ~HasNul(last.source)) =>
        /\ last.res.tag # "Panic"
        /\ pc # "panicked"
        /\ last.res.tag = (IF last.op = "compile" THEN "CompileError" ELSE "LinkError")

====
